---------------------------- MODULE Spec2Model ----------------------------
(***************************************************************************)
(* Model of visitor-double-dispatch.cpp: a closed hierarchy of immutable   *)
(* data objects (StringObject, IntegerObject, FloatObject), the visitor    *)
(* base class DataObjectVisitor with one no-op visit() per kind, the       *)
(* accept() functions that perform the second dispatch, the DataRenderer   *)
(* visitor that printf()s each kind, and the loop of main().               *)
(*                                                                         *)
(* Text is a sequence of one-character strings, so that printf's           *)
(* conversions (%s, %d, %f) are computed character by character.  The      *)
(* token "NUL" stands for the character '\0'.                              *)
(***************************************************************************)
EXTENDS Integers, Sequences, FiniteSets, TLC

\* Longest container of data objects the model explores.
MaxLen == 3

\* ------------------------------------------------------------------ text

\* printf's default precision of %f: six digits after the point.
FracPrecision == 6

\* A float has a 24-bit significand: mant in 2^23 .. 2^24-1, and its value is
\* mant * 2^(exp - 23), negated when neg.
MantBits == 24

Pow2(k) == 2 ^ k

Pow10(k) == 10 ^ k

DigitChars == <<"0", "1", "2", "3", "4", "5", "6", "7", "8", "9">>

\* The decimal digits of a natural number, most significant first.
NatDigits[n \in Nat] ==
    IF n < 10 THEN <<DigitChars[n + 1]>>
    ELSE NatDigits[n \div 10] \o <<DigitChars[(n % 10) + 1]>>

\* printf("%d", v)
FormatD(v) == IF v < 0 THEN <<"-">> \o NatDigits[0 - v] ELSE NatDigits[v]

\* std::string::c_str() read by %s: the characters before the first '\0'.
RECURSIVE CStr(_)
CStr(s) ==
    IF s = <<>> \/ Head(s) = "NUL" THEN <<>> ELSE <<Head(s)>> \o CStr(Tail(s))

\* k more steps of the long division r / D in base 10, after the digits acc:
\* <<the digits as a number, the remainder>>.
FracDigits[r \in Nat, D \in Nat, k \in Nat, acc \in Nat] ==
    IF k = 0 THEN <<acc, r>>
    ELSE FracDigits[(r * 10) % D, D, k - 1, acc * 10 + ((r * 10) \div D)]

\* The digits fr[1] rounded by the remainder fr[2] of the division by D:
\* to nearest, ties to even.
RoundFrac[fr \in Nat \X Nat, D \in Nat] ==
    IF (2 * fr[2] > D) \/ (2 * fr[2] = D /\ fr[1] % 2 = 1) THEN fr[1] + 1 ELSE fr[1]

ZeroPad[n \in Nat, width \in Nat] ==
    IF Len(NatDigits[n]) >= width THEN NatDigits[n]
    ELSE [k \in 1 .. (width - Len(NatDigits[n])) |-> "0"] \o NatDigits[n]

\* Sign, integer part, point and FracPrecision digits; a fraction rounded up
\* to 1 carries into the integer part.
Fixed[neg \in BOOLEAN, ip \in Nat, frac \in Nat] ==
    (IF neg THEN <<"-">> ELSE <<>>)
    \o NatDigits[IF frac = Pow10(FracPrecision) THEN ip + 1 ELSE ip]
    \o <<".">>
    \o ZeroPad[IF frac = Pow10(FracPrecision) THEN 0 ELSE frac, FracPrecision]

\* printf("%f", f): the float is promoted to double (exactly) and printed in
\* fixed notation with FracPrecision digits.
FormatF(f) ==
    Fixed[f.neg,
          f.mant \div Pow2((MantBits - 1) - f.exp),
          RoundFrac[FracDigits[f.mant % Pow2((MantBits - 1) - f.exp),
                               Pow2((MantBits - 1) - f.exp), FracPrecision, 0],
                    Pow2((MantBits - 1) - f.exp)]]

\* One conversion of a printf format applied to its argument.
Conv(spec, arg) ==
    CASE spec = "%s" -> CStr(arg)
      [] spec = "%d" -> FormatD(arg)
      [] spec = "%f" -> FormatF(arg)

\* printf(fmt, args...): the characters written to stdout.
RECURSIVE Printf(_, _)
Printf(fmt, args) ==
    IF fmt = <<>> THEN <<>>
    ELSE IF Head(fmt) \in {"%s", "%d", "%f"}
         THEN Conv(Head(fmt), Head(args)) \o Printf(Tail(fmt), Tail(args))
         ELSE <<Head(fmt)>> \o Printf(Tail(fmt), args)

\* The float nearest to the decimal literal n/d (n, d > 0), ties to even.
FloatLit(n, d) ==
    LET e  == CHOOSE k \in 0 .. 6 : Pow2(k) * d <= n /\ n < Pow2(k + 1) * d
        x  == n * Pow2((MantBits - 1) - e)
        q  == x \div d
        r  == x % d
        m  == IF 2 * r > d \/ (2 * r = d /\ q % 2 = 1) THEN q + 1 ELSE q
    IN  IF m = Pow2(MantBits)
        THEN [neg |-> FALSE, mant |-> Pow2(MantBits - 1), exp |-> e + 1]
        ELSE [neg |-> FALSE, mant |-> m, exp |-> e]

\* ---------------------------------------------------------- data objects

Kinds == {"String", "Integer", "Float"}

StringObject(strData, encoding) ==
    [kind |-> "String", strData |-> strData, encoding |-> encoding]

IntegerObject(intValue, width) ==
    [kind |-> "Integer", intValue |-> intValue, width |-> width]

FloatObject(floatValue, floatType) ==
    [kind |-> "Float", floatValue |-> floatValue, floatType |-> floatType]

getStringData(data) == data.strData
getEncoding(data)   == data.encoding
getIntValue(data)   == data.intValue
getWidthBits(data)  == data.width
getFloatValue(data) == data.floatValue
getFloatType(data)  == data.floatType

\* The container built by getObjects().
getObjects ==
    << StringObject(<<"H", "e", "l", "l", "o">>, <<"u", "t", "f", "-", "8">>),
       IntegerObject(16, 32),
       FloatObject(FloatLit(314, 100), <<"i", "e", "e", "e", "-", "7", "5", "4">>) >>

\* The data objects the explored containers are built from: those of
\* getObjects(), and one more of each kind (a string holding a newline, a
\* negative integer, a negative float just below 2).
ObjectPool ==
    { getObjects[k] : k \in 1 .. Len(getObjects) }
    \cup { StringObject(<<"a", "\n", "b">>, <<>>),
           IntegerObject(0 - 7, 8),
           FloatObject([neg |-> TRUE, mant |-> Pow2(MantBits) - 1, exp |-> 0],
                       <<"b", "3", "2">>) }

DObjContainer == UNION { [1 .. n -> ObjectPool] : n \in 0 .. MaxLen }

\* ----------------------------------------------------------------- state

VARIABLES
    objects,    \* main's `objects`: the container of data objects
    visitors,   \* the visitor objects of the driver (main has one, `renderer`)
    cur,        \* the visitor the loop is running with
    i,          \* how many elements of `objects` the loop has passed to accept()
    stack,      \* the call stack, innermost frame last
    stdout,     \* the characters written to standard output
    calls,      \* history: every visit() executed, in order
    status,     \* "running", "exited" or "error"
    exitCode    \* main's return value; -1 until main has returned

vars == <<objects, visitors, cur, i, stack, stdout, calls, status, exitCode>>

\* ------------------------------------------------------------- visitors

\* A visitor object is an instance of a class derived from DataObjectVisitor;
\* `overrides` is the set of kinds whose visit() the class overrides.  The
\* class has no data members.
Visitor(overrides) == [overrides |-> overrides]

\* class DataRenderer overrides visit() for all three kinds.
\* (Faulty variant: the override for FloatObject is missing.)
DataRenderer_NoFloat == Visitor({"String", "Integer"})
DataRenderer == Visitor({"String", "Integer", "Float"})

VisitorClasses == { Visitor(S) : S \in SUBSET Kinds }

\* DataObjectVisitor gives every visit() a body, so each slot of the base
\* class's virtual table names a function of DataObjectVisitor.
\* (Faulty variant: visit(const FloatObject&) declared without a body.)
BaseVtablePure ==
    [k \in Kinds |-> IF k = "Float" THEN "pure" ELSE "DataObjectVisitor"]
BaseVtable == [k \in Kinds |-> "DataObjectVisitor"]

\* visitor.visit(const K&): the virtual call binds to the override of the
\* visitor's class when there is one, else to the base class's function.
Resolve(visitor, k) ==
    IF k \in visitor.overrides THEN "DataRenderer" ELSE BaseVtable[k]

\* A visit() takes the visitor by (mutable) this and the data object by const
\* reference.  Its effect is the visitor after the call, the characters
\* written to stdout and the data object after the call.
\* (Faulty variant: a default visit() that writes.)
DataObjectVisitor_visit_Noisy(visitor, data) ==
    [visitor |-> visitor, out |-> <<"?", "\n">>, data |-> data]
DataObjectVisitor_visit(visitor, data) ==
    [visitor |-> visitor, out |-> <<>>, data |-> data]

FmtString ==
    <<"S", "t", "r", "i", "n", "g", ":", " ", " ", " ", " ", " ",
      "\"", "%s", "\"", " ", " ", "(", "%s", ")", "\n">>
FmtInteger ==
    <<"I", "n", "t", "e", "g", "e", "r", ":", " ", " ", " ", " ",
      "%d", " ", " ", "(", "%d", " ", "b", "i", "t", "s", ")", "\n">>
FmtFloat ==
    <<"F", "l", "o", "a", "t", ":", " ", " ", " ", " ", " ", " ",
      "%f", " ", " ", "(", "%s", ")", "\n">>

\* (Faulty variant: the handler clears the string it was given.)
DataRenderer_visit_String_Clearing(visitor, data) ==
    [visitor |-> visitor,
     out     |-> Printf(FmtString, <<getStringData(data), getEncoding(data)>>),
     data    |-> [data EXCEPT !.strData = <<>>]]
DataRenderer_visit_String(visitor, data) ==
    [visitor |-> visitor,
     out     |-> Printf(FmtString, <<getStringData(data), getEncoding(data)>>),
     data    |-> data]

\* (Faulty variants: printf arguments swapped; a counter shared by all
\* visitor objects printed in front.)
DataRenderer_visit_Integer_Swapped(visitor, data) ==
    [visitor |-> visitor,
     out     |-> Printf(FmtInteger, <<getWidthBits(data), getIntValue(data)>>),
     data    |-> data]
DataRenderer_visit_Integer_Counting(visitor, data) ==
    [visitor |-> visitor,
     out     |-> NatDigits[Len(calls)] \o
                 Printf(FmtInteger, <<getIntValue(data), getWidthBits(data)>>),
     data    |-> data]
DataRenderer_visit_Integer(visitor, data) ==
    [visitor |-> visitor,
     out     |-> Printf(FmtInteger, <<getIntValue(data), getWidthBits(data)>>),
     data    |-> data]

DataRenderer_visit_Float(visitor, data) ==
    [visitor |-> visitor,
     out     |-> Printf(FmtFloat, <<getFloatValue(data), getFloatType(data)>>),
     data    |-> data]

Frame(fn, cls, kind, pc) == [fn |-> fn, cls |-> cls, kind |-> kind, pc |-> pc]

MainFrame == Frame("main", "", "", "loop")

Top == stack[Len(stack)]

Pop(s) == SubSeq(s, 1, Len(s) - 1)

\* The range-for of main starts at the first element ...
\* (Faulty variant: the loop starts at the second element.)
LoopBeginSecond == 0 + 1
LoopBegin == 0

\* ... and goes on while elements are left.
\* (Faulty variant: the loop stops one element early.)
LoopCond_OffByOne(idx, n) == idx < n - 1
LoopCond(idx, n) == idx < n

\* obj->accept(...) is a virtual call: the accept() that runs is the one of
\* the object's own class.
VirtualAccept(obj) == obj.kind

InitWith(n) ==
    /\ objects \in DObjContainer
    /\ \E v \in VisitorClasses : visitors = [k \in 1 .. n |-> v]
    /\ cur = 1
    /\ i = LoopBegin
    /\ stack = <<MainFrame>>
    /\ stdout = <<>>
    /\ calls = <<>>
    /\ status = "running"
    /\ exitCode = -1

\* main after `objects` and `renderer` are constructed.
Init == InitWith(1)

\* for (const auto& obj: objects) obj->accept(renderer);
Main_for ==
    /\ status = "running"
    /\ Top.fn = "main"
    /\ LoopCond(i, Len(objects))
    /\ i' = i + 1
    /\ stack' = Append(stack, Frame("accept", VirtualAccept(objects[i + 1]), "", "call"))
    /\ UNCHANGED <<objects, visitors, cur, stdout, calls, status, exitCode>>

\* K::accept, for the static type `slot` of *this: visitor.visit(*this).
\* The overload is chosen by the static type, the function by the visitor's
\* virtual table; a slot without a function ends the program.
AcceptCall(K, slot) ==
    /\ status = "running"
    /\ Top.fn = "accept" /\ Top.cls = K /\ Top.pc = "call"
    /\ LET impl == Resolve(visitors[cur], slot)
       IN  IF impl = "pure"
           THEN /\ status' = "error"
                /\ stack' = stack
           ELSE /\ status' = status
                /\ stack' = Append(Pop(stack) \o <<Frame("accept", K, "", "ret")>>,
                                   Frame("visit", impl, slot, "body"))
    /\ UNCHANGED <<objects, visitors, cur, i, stdout, calls, exitCode>>

\* K::accept returns to the loop once visit() has returned.
AcceptRet(K) ==
    /\ status = "running"
    /\ Top.fn = "accept" /\ Top.cls = K /\ Top.pc = "ret"
    /\ stack' = Pop(stack)
    /\ UNCHANGED <<objects, visitors, cur, i, stdout, calls, status, exitCode>>

StringObject_accept == AcceptCall("String", "String") \/ AcceptRet("String")

\* (Faulty variant: IntegerObject::accept calls the StringObject overload.)
IntegerObject_accept_String == AcceptCall("Integer", "String") \/ AcceptRet("Integer")
IntegerObject_accept == AcceptCall("Integer", "Integer") \/ AcceptRet("Integer")

FloatObject_accept == AcceptCall("Float", "Float") \/ AcceptRet("Float")

\* The body of the visit() on top of the stack runs and returns.
RunVisit(cls, kind, res) ==
    /\ status = "running"
    /\ Top.fn = "visit" /\ Top.cls = cls /\ Top.kind = kind
    /\ visitors' = [visitors EXCEPT ![cur] = res.visitor]
    /\ objects' = [objects EXCEPT ![i] = res.data]
    /\ stdout' = stdout \o res.out
    /\ calls' = Append(calls, [inst |-> cur, idx |-> i, kind |-> kind,
                               cls |-> cls, out |-> res.out])
    /\ stack' = Pop(stack)
    /\ UNCHANGED <<cur, i, status, exitCode>>

Visit_String ==
    RunVisit("DataRenderer", "String",
             DataRenderer_visit_String(visitors[cur], objects[i]))

Visit_Integer ==
    RunVisit("DataRenderer", "Integer",
             DataRenderer_visit_Integer(visitors[cur], objects[i]))

Visit_Float ==
    RunVisit("DataRenderer", "Float",
             DataRenderer_visit_Float(visitors[cur], objects[i]))

Visit_Default ==
    \E k \in Kinds :
        RunVisit("DataObjectVisitor", k,
                 DataObjectVisitor_visit(visitors[cur], objects[i]))

\* return 0;
\* (Faulty variant: an empty container is reported as a failure.)
MainReturn_EmptyIsError ==
    /\ status = "running"
    /\ Top.fn = "main"
    /\ ~LoopCond(i, Len(objects))
    /\ cur = Len(visitors)
    /\ stack' = <<>>
    /\ status' = IF objects = <<>> THEN "error" ELSE "exited"
    /\ exitCode' = IF objects = <<>> THEN 1 ELSE 0
    /\ UNCHANGED <<objects, visitors, cur, i, stdout, calls>>
MainReturn ==
    /\ status = "running"
    /\ Top.fn = "main"
    /\ ~LoopCond(i, Len(objects))
    /\ cur = Len(visitors)
    /\ stack' = <<>>
    /\ status' = "exited"
    /\ exitCode' = 0
    /\ UNCHANGED <<objects, visitors, cur, i, stdout, calls>>

Next ==
    \/ Main_for
    \/ StringObject_accept
    \/ IntegerObject_accept
    \/ FloatObject_accept
    \/ Visit_String
    \/ Visit_Integer
    \/ Visit_Float
    \/ Visit_Default
    \/ MainReturn

Spec == Init /\ [][Next]_vars

\* main runs to completion: nothing but the program itself schedules it.
FairSpec == Spec /\ WF_vars(Next)

\* The same container dispatched through two visitor objects of one class,
\* one loop after the other.
InitTwo == InitWith(2)

NextRenderer ==
    /\ status = "running"
    /\ Top.fn = "main"
    /\ ~LoopCond(i, Len(objects))
    /\ cur < Len(visitors)
    /\ cur' = cur + 1
    /\ i' = LoopBegin
    /\ UNCHANGED <<objects, visitors, stack, stdout, calls, status, exitCode>>

NextTwo == Next \/ NextRenderer

SpecTwo == InitTwo /\ [][NextTwo]_vars


\* ------------------------------------------------------------ properties

\* The visit() of the dispatch in progress has been executed.
VisitDone ==
    \/ stack = <<>>
    \/ Top.fn = "main"
    \/ Top.fn = "accept" /\ Top.pc = "ret"

\* The history entries of visitor c for the j-th data object.
CallsFor(c, j) == { k \in 1 .. Len(calls) : calls[k].inst = c /\ calls[k].idx = j }

AcceptFrames == { k \in 1 .. Len(stack) : stack[k].fn = "accept" }

RECURSIVE Concat(_)
Concat(ss) == IF ss = <<>> THEN <<>> ELSE Head(ss) \o Concat(Tail(ss))

\* What visitor c has written.
OutOf(c) ==
    Concat([k \in 1 .. Cardinality({n \in 1 .. Len(calls) : calls[n].inst = c}) |->
              LET n == CHOOSE n \in 1 .. Len(calls) :
                         /\ calls[n].inst = c
                         /\ Cardinality({m \in 1 .. n : calls[m].inst = c}) = k
              IN  calls[n].out])

NumNewlines(s) == Cardinality({ k \in 1 .. Len(s) : s[k] = "\n" })

\* The newline-terminated lines of a character stream, terminators dropped.
RECURSIVE SplitLines(_, _)
SplitLines(s, acc) ==
    IF s = <<>> THEN <<>>
    ELSE IF Head(s) = "\n" THEN <<acc>> \o SplitLines(Tail(s), <<>>)
         ELSE SplitLines(Tail(s), Append(acc, Head(s)))

\* A line with every run of spaces collapsed to one space.
RECURSIVE Squeeze(_)
Squeeze(s) ==
    IF Len(s) < 2 THEN s
    ELSE IF s[1] = " " /\ s[2] = " " THEN Squeeze(Tail(s))
         ELSE <<Head(s)>> \o Squeeze(Tail(s))

OutputLines == [k \in 1 .. Len(SplitLines(stdout, <<>>)) |->
                  Squeeze(SplitLines(stdout, <<>>)[k])]

IsPrefix(p, s) == Len(p) <= Len(s) /\ SubSeq(s, 1, Len(p)) = p

KindPrefix(k) ==
    CASE k = "String"  -> <<"S", "t", "r", "i", "n", "g", ":">>
      [] k = "Integer" -> <<"I", "n", "t", "e", "g", "e", "r", ":">>
      [] k = "Float"   -> <<"F", "l", "o", "a", "t", ":">>

HasNewline(obj) ==
    CASE obj.kind = "String"  -> "\n" \in { CStr(obj.strData)[k] : k \in 1 .. Len(CStr(obj.strData)) }
                                 \cup { CStr(obj.encoding)[k] : k \in 1 .. Len(CStr(obj.encoding)) }
      [] obj.kind = "Integer" -> FALSE
      [] obj.kind = "Float"   -> "\n" \in { CStr(obj.floatType)[k] : k \in 1 .. Len(CStr(obj.floatType)) }

\* C1: one accept() invokes exactly one visit() of the visitor, exactly once,
\* and it is the visit() for the data object's own kind: every data object
\* whose dispatch has run its visit() has exactly one history entry, of its
\* kind; those not yet dispatched have none; and a visit() frame on the stack
\* is for the kind of the object being dispatched.
C1_ExactlyOneHandlerOfOwnKind ==
    /\ \A j \in 1 .. Len(objects) :
          /\ Cardinality(CallsFor(1, j)) =
                (IF j < i \/ (j = i /\ VisitDone) THEN 1 ELSE 0)
          /\ \A k \in CallsFor(1, j) : calls[k].kind = objects[j].kind
    /\ \A k \in 1 .. Len(calls) : calls[k].idx \in 1 .. Len(objects)
    /\ \A k \in 1 .. Len(stack) :
          stack[k].fn = "visit" =>
              i \in 1 .. Len(objects) /\ stack[k].kind = objects[i].kind

C1_Witness ==
    /\ status = "exited"
    /\ Len(calls) = 3
    /\ { calls[k].kind : k \in 1 .. 3 } = Kinds
    /\ visitors[1].overrides = {"Integer"}

\* C2: no step of the program changes a field of any data object: the
\* container after every step is the container before it.
C2_ObjectsNeverChange == [][objects' = objects]_vars

C2_Witness ==
    /\ status = "exited"
    /\ Len(calls) = 2
    /\ \A k \in 1 .. 2 : calls[k].cls = "DataRenderer" /\ calls[k].kind = "String"

\* C3: while a data object whose kind the visitor does not override is being
\* dispatched, the visit() that runs is the base class's, and no step changes
\* stdout, the visitor or the data objects, or ends in an error.
C3_NoOverrideNoEffect ==
    [][ ( /\ status = "running"
          /\ Len(stack) >= 2
          /\ objects[i].kind \notin visitors[cur].overrides )
        => ( /\ stdout' = stdout
             /\ visitors' = visitors
             /\ objects' = objects
             /\ status' = "running"
             /\ \A k \in 1 .. Len(stack') :
                   stack'[k].fn = "visit" => stack'[k].cls = "DataObjectVisitor" ) ]_vars

C3_Witness ==
    /\ status = "exited"
    /\ visitors[1].overrides = {"String"}
    /\ Len(calls) = 3
    /\ \A k \in 1 .. 3 : calls[k].cls = "DataObjectVisitor"
    /\ stdout = <<>>

\* C4 as stated: the container of getObjects() rendered by a DataRenderer
\* gives three lines that are, up to runs of spaces, String: "Hello" (utf-8),
\* Integer: 16 (32 bits) and Float: 3.14 (ieee-754).
C4_Original ==
    (objects = getObjects /\ visitors[1] = DataRenderer /\ status = "exited")
    => OutputLines =
         << <<"S", "t", "r", "i", "n", "g", ":", " ", "\"", "H", "e", "l", "l", "o",
              "\"", " ", "(", "u", "t", "f", "-", "8", ")">>,
            <<"I", "n", "t", "e", "g", "e", "r", ":", " ", "1", "6", " ", "(", "3",
              "2", " ", "b", "i", "t", "s", ")">>,
            <<"F", "l", "o", "a", "t", ":", " ", "3", ".", "1", "4", " ", "(", "i",
              "e", "e", "e", "-", "7", "5", "4", ")">> >>

\* C4: the container of getObjects() rendered by a DataRenderer gives exactly
\* three lines that are, up to runs of spaces, String: "Hello" (utf-8),
\* Integer: 16 (32 bits) and Float: 3.140000 (ieee-754), in that order: %f
\* prints six digits after the point.
C4_RenderedScenario ==
    (objects = getObjects /\ visitors[1] = DataRenderer /\ status = "exited")
    => /\ NumNewlines(stdout) = 3
       /\ stdout[Len(stdout)] = "\n"
       /\ OutputLines =
            << <<"S", "t", "r", "i", "n", "g", ":", " ", "\"", "H", "e", "l", "l", "o",
                 "\"", " ", "(", "u", "t", "f", "-", "8", ")">>,
               <<"I", "n", "t", "e", "g", "e", "r", ":", " ", "1", "6", " ", "(", "3",
                 "2", " ", "b", "i", "t", "s", ")">>,
               <<"F", "l", "o", "a", "t", ":", " ", "3", ".", "1", "4", "0", "0", "0",
                 "0", " ", "(", "i", "e", "e", "e", "-", "7", "5", "4", ")">> >>

C4_Witness ==
    objects = getObjects /\ visitors[1] = DataRenderer /\ status = "exited"

\* C5: the loop passes every data object to accept() exactly once, in
\* container order: the k-th visit() executed is for the k-th data object,
\* the visit() of the i-th dispatch has run before the (i+1)-th dispatch
\* begins, at most one accept() is active, and when main returns every data
\* object has been dispatched.
C5_DispatchInOrder ==
    /\ \A k \in 1 .. Len(calls) :
          /\ calls[k].idx = k
          /\ k <= Len(objects)
          /\ calls[k].kind = objects[k].kind
    /\ Len(calls) = (IF VisitDone THEN i ELSE i - 1)
    /\ Cardinality(AcceptFrames) <= 1
    /\ (status = "exited" => Len(calls) = Len(objects))

C5_Witness ==
    /\ status = "exited"
    /\ Len(calls) = 3
    /\ objects[1].kind = "Integer"
    /\ objects[2].kind = "Float"
    /\ objects[3].kind = "String"

\* C6: two visitor objects of one class, given the same container one after
\* the other, write the same characters and end in the same state, and no
\* step taken for one of them changes the other or what the other has written.
C6_IndependentInstances ==
    /\ [](status = "exited" => (OutOf(1) = OutOf(2) /\ visitors[1] = visitors[2]
                                /\ stdout = OutOf(1) \o OutOf(2)))
    /\ [][ /\ (cur = 2 /\ cur' = 2) => (visitors'[1] = visitors[1] /\ OutOf(1)' = OutOf(1))
           /\ (cur = 1 /\ cur' = 1) => (visitors'[2] = visitors[2] /\ OutOf(2)' = OutOf(2))
         ]_vars

C6_Witness ==
    /\ status = "exited"
    /\ cur = 2
    /\ Len(calls) = 6
    /\ visitors[1] = DataRenderer
    /\ OutOf(2) # <<>>

\* C7: with an empty container no visit() is ever executed, nothing is
\* written, no error arises, and main returns 0.
C7_EmptyContainer ==
    /\ [](objects = <<>> => (calls = <<>> /\ stdout = <<>> /\ status # "error"
                             /\ Cardinality(AcceptFrames) = 0))
    /\ (objects = <<>>) ~> (status = "exited" /\ exitCode = 0)

C7_Witness == objects = <<>> /\ status = "exited" /\ visitors[1].overrides = {"Float"}

\* C8: dispatch has no error outcome: whatever the visitor overrides, the
\* program is running or has returned 0, and a dispatch to a kind the visitor
\* does not override has run the base class's visit().
C8_NoErrorState ==
    /\ status \in {"running", "exited"}
    /\ (status = "exited" => exitCode = 0)
    /\ \A k \in 1 .. Len(calls) :
          calls[k].cls = (IF calls[k].kind \in visitors[calls[k].inst].overrides
                          THEN "DataRenderer" ELSE "DataObjectVisitor")

C8_Witness ==
    /\ status = "exited"
    /\ visitors[1].overrides = {}
    /\ { calls[k].kind : k \in 1 .. Len(calls) } = Kinds

\* C9: main terminates: it returns, after exactly one visit() per data
\* object, and accept() is never re-entered (the stack is never deeper than
\* main, one accept() and one visit()).
C9_Terminates ==
    /\ <>(status = "exited")
    /\ [](status = "exited" => (Len(calls) = Len(objects) /\ i = Len(objects)))
    /\ [](Cardinality(AcceptFrames) <= 1 /\ Len(stack) <= 3)

C9_Witness ==
    /\ status = "exited"
    /\ Len(calls) = 2
    /\ visitors[1].overrides = {"Float", "Integer"}

\* C10 as stated: with a DataRenderer every dispatch appends exactly one
\* output line, whose prefix names the kind, so that the number of lines
\* written is the number of dispatches.
C10_Original ==
    visitors[1] = DataRenderer =>
        /\ NumNewlines(stdout) = Len(calls)
        /\ \A k \in 1 .. Len(calls) :
              /\ k <= Len(OutputLines)
              /\ IsPrefix(KindPrefix(objects[k].kind), OutputLines[k])

\* C10: with a DataRenderer every dispatch runs DataRenderer's own visit(),
\* which appends exactly one printf record that begins with the name of the
\* data object's kind and ends with a newline; after n dispatches n records
\* are on stdout, and they are n lines when no string field of the data
\* objects dispatched holds a newline.
C10_RendererOneRecordPerDispatch ==
    visitors[1] = DataRenderer =>
        /\ \A k \in 1 .. Len(calls) :
              /\ calls[k].cls = "DataRenderer"
              /\ IsPrefix(KindPrefix(objects[k].kind), calls[k].out)
              /\ calls[k].out[Len(calls[k].out)] = "\n"
        /\ stdout = OutOf(1)
        /\ (status = "exited" => Len(calls) = Len(objects))
        /\ (\A k \in 1 .. Len(calls) : ~HasNewline(objects[k]))
              => /\ NumNewlines(stdout) = Len(calls)
                 /\ \A k \in 1 .. Len(calls) :
                       IsPrefix(KindPrefix(objects[k].kind), OutputLines[k])

C10_Witness ==
    /\ visitors[1] = DataRenderer
    /\ status = "exited"
    /\ Len(calls) = 3
    /\ \E k \in 1 .. 3 : HasNewline(objects[k])
    /\ \E k \in 1 .. 3 : objects[k].kind = "Float"


=============================================================================
